---------------------------- MODULE Spec2Model ----------------------------
(***************************************************************************)
(* Model of the CFO portal: the financial-model page                       *)
(* (src/views/financial_model.py): the widget values of one script run,    *)
(* run_projection for the primary and the optional comparison scenario;    *)
(* the assumptions register (src/data_access.py) and its page              *)
(* (src/views/assumptions.py): load, save, reset, get_model_assumptions.   *)
(*                                                                         *)
(* Numbers.  The program computes in binary floating point; the model      *)
(* computes in fixed point over the integers:                              *)
(*   - ratios (growth, margins, capex) are in 1/Scale (per mille);         *)
(*   - the columns of the projection table are in 1/Scale of the currency  *)
(*     unit, the money inputs in whole currency units;                     *)
(*   - compound factors (1+r)^n are in 1/FP, each multiplication rounded   *)
(*     down to 1/FP.                                                       *)
(* Sums, differences and the products of the sampled ratios are exact; the *)
(* roots, powers and quotients are rounded down where the program rounds   *)
(* to the nearest double.                                                  *)
(***************************************************************************)
EXTENDS Integers, Sequences, FiniteSets, TLC

VARIABLES
    model_start,          \* st.date_input "Model Start Month", day replaced by 1
    projection_months,    \* st.slider "Projection Horizon (months)"
    cash_safety_months,   \* model_assumptions.csv: cash_safety_months
    primary_inputs,       \* ScenarioInputs collected with key prefix "primary"
    enable_comparison,    \* st.checkbox "Enable comparison scenario"
    comparison_inputs,    \* ScenarioInputs with key prefix "comparison", or None
    primary_result,       \* the dict run_projection returned, or None
    comparison_result,    \* the same for the comparison scenario, or None
    export_df,            \* the table offered as financial_model_scenarios.csv
    file,                 \* assumptions_register.csv: the lines after the header
    cache,                \* the memo of st.cache_data for load_assumptions_register
    pc,                   \* where each session's script run stands
    assumption_case,      \* st.session_state["assumption_case"] of each session
    session_df,           \* the table each session's run holds in memory
    wpos,                 \* lines each session's open handle has written
    notice,               \* what the run showed: "success", "warning", "exception"
    runs,                 \* script runs each session has started
    last_op,              \* history: the step taken last
    saved,                \* history: the last save or reset that wrote the whole file,
                          \*   and every table written so far
    fresh,                \* history: the session's load began after the last save returned
    assumption_drivers,   \* the dict get_model_assumptions returned last
    session_state,        \* st.session_state of each session: nav_section, nav_page,
                          \*   nav_page_section
    selected_page,        \* the page main() rendered last in each session
    rendered,             \* what main() showed for it: a view module or the placeholder
    nav_before            \* history: the session state each session's last run of
                          \*   main() started from

proj_vars == <<model_start, projection_months, cash_safety_months, primary_inputs,
               enable_comparison, comparison_inputs, primary_result, comparison_result,
               export_df>>

reg_vars == <<file, cache, pc, assumption_case, session_df, wpos, notice, runs, last_op,
              saved, fresh, assumption_drivers>>

nav_vars == <<session_state, selected_page, rendered, nav_before>>

vars == <<proj_vars, reg_vars, nav_vars>>

\* Python's None and float("inf") where the value is otherwise a number
None == [isnone |-> TRUE]
Some(v) == [isnone |-> FALSE, value |-> v]
inf == [isinf |-> TRUE]
Finite(v) == [isinf |-> FALSE, value |-> v]

----------------------------------------------------------------------------
(* Fixed point *)

Scale == 1000
FP == 10000

Min(a, b) == IF a <= b THEN a ELSE b
Max(a, b) == IF a >= b THEN a ELSE b
Abs(a) == IF a < 0 THEN -a ELSE a

\* floor(a * b / c) for a, b >= 0 and c > 0, without forming a * b
MulDiv(a, b, c) == (a \div c) * b + ((a % c) * b) \div c

\* base^n, base and result in 1/FP
RECURSIVE PowFix(_, _)
PowFix(base, n) == IF n = 0 THEN FP ELSE MulDiv(PowFix(base, n - 1), base, FP)

\* the largest f in lo..hi with f^12 <= target (f, target in 1/FP)
RECURSIVE Root12(_, _, _)
Root12(lo, hi, target) ==
    IF lo >= hi THEN lo
    ELSE LET mid == (lo + hi + 1) \div 2
         IN  IF PowFix(mid, 12) <= target
             THEN Root12(mid, hi, target)
             ELSE Root12(lo, mid - 1, target)

----------------------------------------------------------------------------
(* Calendar months: pd.Timestamp with day = 1 *)

Timestamp(y, m) == [year |-> y, month |-> m]

AddMonths(ts, n) ==
    LET total == ts.year * 12 + (ts.month - 1) + n
    IN  Timestamp(total \div 12, (total % 12) + 1)

\* pd.date_range(start, periods, freq="MS")
date_range(start, periods) == [i \in 1..periods |-> AddMonths(start, i - 1)]

_months_between(start, end) ==
    (end.year - start.year) * 12 + (end.month - start.month)

Digits == <<"0", "1", "2", "3", "4", "5", "6", "7", "8", "9">>
Digit(d) == Digits[d + 1]

\* Timestamp.strftime("%Y-%m")
strftime_Ym(ts) ==
    Digit((ts.year \div 1000) % 10) \o Digit((ts.year \div 100) % 10)
        \o Digit((ts.year \div 10) % 10) \o Digit(ts.year % 10)
        \o "-" \o Digit(ts.month \div 10) \o Digit(ts.month % 10)

----------------------------------------------------------------------------
(* Stress cases: the multipliers in percent *)

\* mutant: the growth multipliers of Upside and Downside exchanged
STRESS_CASES_swapped ==
    [Base     |-> [growth |-> 100, margin |-> 100, opex |-> 100],
     Upside   |-> [growth |-> 70,  margin |-> 105, opex |-> 92],
     Downside |-> [growth |-> 120, margin |-> 90,  opex |-> 112]]

STRESS_CASES ==
    [Base     |-> [growth |-> 100, margin |-> 100, opex |-> 100],
     Upside   |-> [growth |-> 120, margin |-> 105, opex |-> 92],
     Downside |-> [growth |-> 70,  margin |-> 90,  opex |-> 112]]

SCENARIO_OPTIONS == <<"Acquire Existing Business", "Start from Scratch">>

\* collect_scenario_inputs: the selectbox's preselected option, zero-based
scenario_index(default_scenario_type) ==
    IF \E k \in DOMAIN SCENARIO_OPTIONS : SCENARIO_OPTIONS[k] = default_scenario_type
    THEN (CHOOSE k \in DOMAIN SCENARIO_OPTIONS :
              SCENARIO_OPTIONS[k] = default_scenario_type) - 1
    ELSE 0

\* ratio * multiplier, ratio in 1/Scale, multiplier in percent
StressMul(ratio, pct) == (ratio * pct) \div 100

GrowthCap == 900
RatioCap == 950
RatioFloor == 50


----------------------------------------------------------------------------
(* run_projection *)

\* whole currency units to the unit of the table's columns
Money(x) == x * Scale

\* amount * ratio, the ratio in 1/Scale
Ratio(amount, r) == MulDiv(amount, r, Scale)

\* mutant: an unknown stress case falls back to the Base multipliers
preset_or_base(inputs) ==
    IF inputs.stress_case \in DOMAIN STRESS_CASES
    THEN [raised |-> "", value |-> STRESS_CASES[inputs.stress_case]]
    ELSE [raised |-> "", value |-> STRESS_CASES["Base"]]

\* preset = STRESS_CASES[inputs.stress_case]: a KeyError for a name that is not a key
preset(inputs) ==
    IF inputs.stress_case \in DOMAIN STRESS_CASES
    THEN [raised |-> "", value |-> STRESS_CASES[inputs.stress_case]]
    ELSE [raised |-> "KeyError"]

effective_growth(inputs) ==
    Min(StressMul(inputs.revenue_growth, preset(inputs).value.growth), GrowthCap)

\* mutant: the margin after the stress multiplier, not clamped
effective_gross_margin_raw(inputs) ==
    StressMul(inputs.gross_margin, preset(inputs).value.margin)

effective_gross_margin(inputs) ==
    Max(Min(StressMul(inputs.gross_margin, preset(inputs).value.margin), RatioCap),
        RatioFloor)

effective_opex_ratio(inputs) ==
    Max(Min(StressMul(inputs.opex_ratio, preset(inputs).value.opex), RatioCap),
        RatioFloor)

\* 1 + monthly_growth in 1/FP, monthly_growth = (1 + growth) ** (1 / 12) - 1
monthly_factor(growth) == Root12(0, 2 * FP, FP + growth * (FP \div Scale))

\* months from model start to construction start (day 1 of its month)
launch_delay(inputs, start) == _months_between(start, inputs.construction_start)

\* mutant: the construction start left out of the launch offset
launch_offset_no_delay(inputs, start) ==
    Max(0, inputs.construction_duration_months)

launch_offset(inputs, start) ==
    Max(0, launch_delay(inputs, start) + inputs.construction_duration_months)

\* mutant: the draw index not clamped to the last month
loan_draw_idx_unclamped(inputs, n, start) ==
    Max(launch_delay(inputs, start), 0)

loan_draw_idx(inputs, n, start) ==
    Min(Max(launch_delay(inputs, start), 0), n - 1)

\* mutant: the families of one month, not accumulated since launch
families_at_flat(inputs, launch, i) ==
    IF i - launch >= 0 THEN inputs.families_per_month ELSE 0

\* mutant: the ramp starts the month after launch
families_at_late(inputs, launch, i) ==
    IF i - launch > 0 THEN inputs.families_per_month * ((i - launch) + 1) ELSE 0

families_at(inputs, launch, i) ==
    IF i - launch >= 0 THEN inputs.families_per_month * ((i - launch) + 1) ELSE 0

\* whole currency units
basket_at(inputs, launch, factor, i) ==
    IF i - launch >= 0
    THEN MulDiv(inputs.family_basket_value, PowFix(factor, i - launch), FP)
    ELSE 0

revenue_at(inputs, launch, factor, i) ==
    Money(families_at(inputs, launch, i) * basket_at(inputs, launch, factor, i))

financing_at(inputs, n, start, i) ==
    (IF i = 0 THEN Money(inputs.equity_injection) ELSE 0)
    + (IF inputs.loan_amount > 0 /\ i = loan_draw_idx(inputs, n, start)
       THEN Money(inputs.loan_amount) ELSE 0)

\* inputs.loan_rate / 12 in 1/FP
loan_rate_monthly(inputs) ==
    IF inputs.loan_rate # 0 THEN (inputs.loan_rate * (FP \div Scale)) \div 12 ELSE 0

term_months(inputs) == Max(1, inputs.loan_term_years * 12)

interest_only_payment(inputs) ==
    MulDiv(Money(inputs.loan_amount), loan_rate_monthly(inputs), FP)

\* loan_amount * r / (1 - (1 + r) ** (-term)) = loan_amount * r * (1+r)^term / ((1+r)^term - 1);
\* the quotient by zero raises ZeroDivisionError
annuity_payment(inputs) ==
    LET r == loan_rate_monthly(inputs)
        x == PowFix(FP + r, term_months(inputs))
    IN  IF x - FP = 0 THEN [raised |-> "ZeroDivisionError"]
        ELSE [raised |-> "", value |-> MulDiv(interest_only_payment(inputs), x, x - FP)]

\* mutant: the annuity formula also for a zero rate
amort_payment_annuity_only(inputs) == annuity_payment(inputs)

amort_payment(inputs) ==
    IF loan_rate_monthly(inputs) = 0
    THEN [raised |-> "", value |-> Money(inputs.loan_amount) \div term_months(inputs)]
    ELSE annuity_payment(inputs)

\* mutant: the payment formula evaluated without looking at the loan amount
debt_payment_unguarded(inputs) == annuity_payment(inputs)

\* lines 301-306 and 312-313: the amortizing payment, 0 without a loan
debt_payment(inputs) ==
    IF inputs.loan_amount > 0 THEN amort_payment(inputs) ELSE [raised |-> "", value |-> 0]

\* mutant: nothing charged once term_months amortizing payments were made
debt_service_at_term_limited(inputs, launch, amort, i) ==
    IF inputs.loan_amount > 0 /\ i < launch + term_months(inputs)
    THEN (IF i < launch THEN interest_only_payment(inputs) ELSE amort)
    ELSE 0

\* mutant: interest-only also in the launch month
debt_service_at_late(inputs, launch, amort, i) ==
    IF inputs.loan_amount > 0
    THEN (IF i <= launch THEN interest_only_payment(inputs) ELSE amort)
    ELSE 0

debt_service_at(inputs, launch, amort, i) ==
    IF inputs.loan_amount > 0
    THEN (IF i < launch THEN interest_only_payment(inputs) ELSE amort)
    ELSE 0

net_cash_flow(row) ==
    row.EBITDA + row.Capex + row.OwnerDraw + row.Financing + row.DebtService

\* df["Net Cash Flow"].cumsum()
RECURSIVE cumsum(_, _)
cumsum(flow, i) == IF i = 0 THEN flow[0] ELSE cumsum(flow, i - 1) + flow[i]

\* mutant: the running sum not seeded with the initial cash
cumulative_cash_unseeded(inputs, flow, i) == cumsum(flow, i)

cumulative_cash(inputs, flow, i) == Money(inputs.initial_cash) + cumsum(flow, i)

\* the columns of the table up to Net Cash Flow
projection_rows(inputs, n, start, amort) ==
    LET launch == launch_offset(inputs, start)
        factor == monthly_factor(effective_growth(inputs))
        gm     == effective_gross_margin(inputs)
        opex   == effective_opex_ratio(inputs)
        months == date_range(start, n)
    IN  [i \in 0..(n - 1) |->
            LET revenue == revenue_at(inputs, launch, factor, i)
                cogs    == -Ratio(revenue, Scale - gm)
                opx     == -Ratio(revenue, opex)
                base    == [month             |-> months[i + 1],
                            FamiliesActive    |-> families_at(inputs, launch, i),
                            Revenue           |-> revenue,
                            COGS              |-> cogs,
                            OperatingExpenses |-> opx,
                            Capex             |-> -Ratio(revenue, inputs.capex_ratio),
                            OwnerDraw         |-> -Money(inputs.owner_draw),
                            Financing         |-> financing_at(inputs, n, start, i),
                            DebtService       |-> -debt_service_at(inputs, launch, amort, i),
                            EBITDA            |-> revenue + cogs + opx]
            IN  base @@ [NetCashFlow |-> net_cash_flow(base)]]

RECURSIVE min_upto(_, _)
min_upto(col, i) == IF i = 0 THEN col[0] ELSE Min(min_upto(col, i - 1), col[i])

\* the rows i..n-1 whose flag is set, in order: df[flags].index
RECURSIVE filter_index(_, _, _)
filter_index(flags, i, n) ==
    IF i >= n THEN <<>>
    ELSE (IF flags[i] THEN <<i>> ELSE <<>>) \o filter_index(flags, i + 1, n)

\* mutant: a month at exactly zero counted as a shortfall
is_below_zero_inclusive(cash) == cash <= 0

\* df["Cumulative Cash"] < 0
is_below_zero(cash) == cash < 0

\* mutant: the 0-based index reported
runway_index_zero_based(below_zero) == below_zero[1]

\* below_zero.index[0] + 1
runway_index(below_zero) == below_zero[1] + 1

BEYOND_HORIZON == "Beyond projection horizon"

\* mutant: the 0-based index reported as the payback month
payback_index_zero_based(payback_df) == Some(payback_df[1])

\* payback_months: None, or float(payback_df.index[0] + 1)
payback_index(payback_df) == Some(payback_df[1] + 1)

\* mutant: the minimum itself, its sign kept
shortfall_signed(min_cash) == IF min_cash < 0 THEN min_cash ELSE 0

\* cash_shortfall = abs(min_cash) if min_cash < 0 else 0.0
shortfall_of(min_cash) == IF min_cash < 0 THEN Abs(min_cash) ELSE 0

\* layout.format_currency(amount, precision=0): the amount rounded to whole units
\* (half to even), as the pair <<"$", units>>
format_currency(amount) ==
    LET q == amount \div Scale
        r == amount % Scale
        units == IF 2 * r > Scale \/ (2 * r = Scale /\ q % 2 = 1) THEN q + 1 ELSE q
    IN  <<"$", units>>

warning_text(cash_shortfall, safety) ==
    IF cash_shortfall > 0
    THEN <<"Runway falls short of the", safety, "-month target. Raise or save approximately",
           format_currency(cash_shortfall), "to stay above zero cash.">>
    ELSE <<>>

run_projection(inputs, n, safety, start) ==
    IF preset(inputs).raised # "" THEN [status |-> preset(inputs).raised]
    ELSE IF n = 0 THEN [status |-> "IndexError"]
    ELSE LET amort == debt_payment(inputs)
    IN  IF amort.raised # "" THEN [status |-> amort.raised]
        ELSE
        LET rows == projection_rows(inputs, n, start, amort.value)
            flow == [i \in 0..(n - 1) |-> rows[i].NetCashFlow]
            cash == [i \in 0..(n - 1) |-> cumulative_cash(inputs, flow, i)]
            data == [i \in 0..(n - 1) |->
                        rows[i] @@
                        [CumulativeCash |-> cash[i],
                         EBITDADelta    |-> IF i = 0 THEN 0
                                            ELSE rows[i].EBITDA - rows[i - 1].EBITDA,
                         Scenario       |-> inputs.label]]
            min_cash   == min_upto(cash, n - 1)
            below_zero == filter_index([i \in 0..(n - 1) |-> is_below_zero(cash[i])], 0, n)
            runway_months == IF below_zero = <<>> THEN inf ELSE Finite(runway_index(below_zero))
            runway_label  == IF below_zero = <<>> THEN BEYOND_HORIZON
                             ELSE strftime_Ym(data[below_zero[1]].month)
            buffer_months == IF below_zero = <<>> THEN inf
                             ELSE Finite(runway_months.value - safety)
            payback_df == filter_index(
                              [i \in 0..(n - 1) |-> cash[i] >= Money(inputs.initial_cash)], 0, n)
            cash_shortfall == shortfall_of(min_cash)
        IN  [status          |-> "ok",
             data            |-> data,
             scenario_label  |-> inputs.label,
             min_cash        |-> min_cash,
             final_cash      |-> cash[n - 1],
             annual_recurring_revenue |-> rows[n - 1].Revenue * 12,
             runway_months   |-> runway_months,
             runway_label    |-> runway_label,
             safety_buffer   |-> buffer_months,
             payback_months  |-> IF payback_df = <<>> THEN None ELSE payback_index(payback_df),
             cash_shortfall  |-> cash_shortfall,
             warning         |-> warning_text(cash_shortfall, safety)]

----------------------------------------------------------------------------
(* The script run of the page: render() *)

NoResult == [status |-> "none"]
NoInputs == [label |-> "none"]
NoExport == <<>>

\* the rows of a result table, in the order of its index
rows_of(frame) == [k \in 1..Cardinality(DOMAIN frame) |-> frame[k - 1]]

\* pd.concat(frames, ignore_index=True): the rows of the frames one after the other
RECURSIVE concat(_)
concat(frames) ==
    IF frames = <<>> THEN <<>> ELSE rows_of(Head(frames)) \o concat(Tail(frames))

\* mutant: the export made of the first table alone
scenario_export_first_only(results) ==
    [k \in 1..Len(rows_of(Head(results))) |->
        [rows_of(Head(results))[k] EXCEPT !.month = strftime_Ym(@)]]

\* the month column written as "%Y-%m"
scenario_export_dataframe(results) ==
    LET export == concat(results)
    IN  [k \in 1..Len(export) |-> [export[k] EXCEPT !.month = strftime_Ym(@)]]

\* render(): export_frames, the comparison appended when there is one
export_frames(primary, comparison) ==
    <<primary.data>> \o (IF comparison # NoResult THEN <<comparison.data>> ELSE <<>>)

\* collect_scenario_inputs: the label is built from the two selections
scenario_label(scenario_type, stress_case) ==
    scenario_type \o " (" \o stress_case \o ")"

\* mutant: the growth driver made part of the label
ScenarioInputs_growth_in_label(ty, st, ca, gr, gm, ox, cx, dr, eq, cs, du, ba, fa, lo, ra, te) ==
    [label             |-> scenario_label(ty, st) \o (IF gr = 0 THEN " flat" ELSE " growing"),
     scenario_type     |-> ty,
     stress_case       |-> st,
     initial_cash      |-> ca,
     revenue_growth    |-> gr,
     gross_margin      |-> gm,
     opex_ratio        |-> ox,
     capex_ratio       |-> cx,
     owner_draw        |-> dr,
     equity_injection  |-> eq,
     construction_start |-> cs,
     construction_duration_months |-> du,
     family_basket_value |-> ba,
     families_per_month |-> fa,
     loan_amount       |-> lo,
     loan_rate         |-> ra,
     loan_term_years   |-> te]

\* the dataclass, its fields in the order of their declaration (construction_start = cs, ...)
ScenarioInputs(ty, st, ca, gr, gm, ox, cx, dr, eq, cs, du, ba, fa, lo, ra, te) ==
    [label             |-> scenario_label(ty, st),
     scenario_type     |-> ty,
     stress_case       |-> st,
     initial_cash      |-> ca,
     revenue_growth    |-> gr,
     gross_margin      |-> gm,
     opex_ratio        |-> ox,
     capex_ratio       |-> cx,
     owner_draw        |-> dr,
     equity_injection  |-> eq,
     construction_start |-> cs,
     construction_duration_months |-> du,
     family_basket_value |-> ba,
     families_per_month |-> fa,
     loan_amount       |-> lo,
     loan_rate         |-> ra,
     loan_term_years   |-> te]

\* The widgets' ranges (collect_scenario_inputs, render)
MinHorizon == 12
HorizonStep == 6
MinDuration == 1
MinBasket == 100
MinFamilies == 10

\* The sampled widget values.  Ratios in 1/Scale, money in whole currency units.
MaxDelay == 1          \* construction starts up to MaxDelay months before or after model start
FarDelay == 14         \* ... or this many months after it, past a 12-month horizon
MaxHorizonSteps == 1   \* horizons MinHorizon, MinHorizon + HorizonStep, ...
MaxTermYears == 2

ModelStarts == {Timestamp(2026, 1)}
Horizons == {MinHorizon + k * HorizonStep : k \in 0..MaxHorizonSteps}
Delays == ((-MaxDelay)..MaxDelay) \cup {FarDelay}
Durations == {MinDuration, 6, 12}
StressNames == {"Base", "Upside", "Downside"}
CashValues == {0, 50000}
OwnerDrawValues == {0, 10000}
EquityValues == {0, 25000}
LoanAmounts == {0, 150000}
LoanRates == {0, 120}
LoanTerms == 1..MaxTermYears
SafetyValues == {6}

\* every ScenarioInputs over the given samples
\* (model start, then one set of samples per field, in the order of the fields;
\* SCS holds the construction starts as months after the model start)
InputSpace(start, STY, SST, SCA, SGR, SGM, SOX, SCX, SDR, SEQ, SCS, SDU, SBA, SFA, SLO, SRA, STE) ==
    { ScenarioInputs(ty, st, ca, gr, gm, ox, cx, dr, eq, AddMonths(start, dl), du, ba, fa,
                     lo, ra, te) :
        ty \in STY, st \in SST, ca \in SCA, gr \in SGR, gm \in SGM,
        ox \in SOX, cx \in SCX, dr \in SDR, eq \in SEQ, dl \in SCS,
        du \in SDU, ba \in SBA, fa \in SFA, lo \in SLO, ra \in SRA,
        te \in STE }

\* One scenario, the comparison disabled: timing, financing and cash vary
PrimarySpace(start) ==
    InputSpace(start, {SCENARIO_OPTIONS[2]}, StressNames, CashValues, {200}, {400}, {350},
               {40}, OwnerDrawValues, EquityValues, Delays, Durations, {MinBasket},
               {MinFamilies}, LoanAmounts, LoanRates, LoanTerms)

\* Two scenarios side by side: the stress case and the operating ratios vary, and the
\* scenario type within the given types
CompareSpace(start, types) ==
    InputSpace(start, types, StressNames, {50000},
               {0, 800}, {100, 400}, {350, 900}, {40}, {10000}, {0}, {0}, {MinDuration},
               {MinBasket}, {MinFamilies}, {0}, {0}, {1})

----------------------------------------------------------------------------
(* The assumptions register (src/data_access.py, src/views/assumptions.py) *)
(*                                                                         *)
(* A table is a sequence of rows; a row is a record of the columns the     *)
(* code reads or writes.  The value columns hold whole numbers or NaN      *)
(* (None); the file holds one line of text cells for each row.             *)

MODEL_DRIVER_KEYS ==
    {"market_households", "household_penetration_y1", "household_penetration_y2",
     "household_penetration_y3", "visits_per_household_week", "avg_basket_size_y1",
     "gross_margin_target", "shrink_pct_sales", "vendor_rebates_pct_sales",
     "store_payroll_pct_sales", "payroll_burden_pct_wages", "marketing_pct_sales",
     "repairs_maintenance_pct_sales", "inventory_days_on_hand", "ap_days_payable",
     "construction_loan_commitment", "construction_rate_annual", "permanent_loan_rate",
     "bridge_loan_rate", "dscr_min_target", "inflation_general", "inflation_wages",
     "inflation_food_cost", "discount_rate_npv", "cash_runway_target_months"}

CASE_TO_COLUMN ==
    [Conservative |-> "low_case", Likely |-> "base_value", Aggressive |-> "high_case"]

\* mutant: an unknown case name read from the first column of the mapping
case_column_default_low(case) ==
    IF case \in DOMAIN CASE_TO_COLUMN THEN CASE_TO_COLUMN[case] ELSE "low_case"

\* CASE_TO_COLUMN.get(case, "base_value")
case_column(case) ==
    IF case \in DOMAIN CASE_TO_COLUMN THEN CASE_TO_COLUMN[case] ELSE "base_value"

HIGH_LEVEL_GROUPS ==
    <<"Revenue & Demand", "Margins & COGS", "Opex & Staffing", "Financing",
      "Working Capital", "Macro & Risk">>

Cases == {"Conservative", "Likely", "Aggressive"}

\* the largest number a value cell holds
MaxCell == 9
\* rows that reach the file in one write of the buffered handle
RowsPerWrite == 2
\* script runs of one session
MaxRuns == 2

RegisterRow(k, g, o, e, a, lo, ba, hi) ==
    [item_key |-> k, ui_group |-> g, ui_order |-> o, ui_is_editable |-> e,
     ui_is_advanced |-> a, low_case |-> lo, base_value |-> ba, high_case |-> hi]

\* ---- to_csv and read_csv ----

RECURSIVE str_int(_)
str_int(n) == IF n < 10 THEN Digit(n) ELSE str_int(n \div 10) \o Digit(n % 10)

\* repr of a float that holds a whole number
str_float(v) == str_int(v) \o ".0"

\* NaN is written as the empty cell
cell_text(c) == IF c.isnone THEN "" ELSE str_float(c.value)

\* the empty cell is read as NaN
parse_cell(s) ==
    IF s = "" THEN None ELSE Some(CHOOSE v \in 0..MaxCell : str_float(v) = s)

parse_int(s) == CHOOSE n \in 0..MaxCell : str_int(n) = s

csv_line(row) ==
    [item_key |-> row.item_key, ui_group |-> row.ui_group,
     ui_order |-> str_int(row.ui_order), ui_is_editable |-> str_int(row.ui_is_editable),
     ui_is_advanced |-> str_int(row.ui_is_advanced), low_case |-> cell_text(row.low_case),
     base_value |-> cell_text(row.base_value), high_case |-> cell_text(row.high_case)]

\* a hole left in the file by a write past its end
BlankLine ==
    [item_key |-> "", ui_group |-> "", ui_order |-> "", ui_is_editable |-> "",
     ui_is_advanced |-> "", low_case |-> "", base_value |-> "", high_case |-> ""]

parse_line(line) ==
    RegisterRow(line.item_key, line.ui_group, parse_int(line.ui_order),
                parse_int(line.ui_is_editable), parse_int(line.ui_is_advanced),
                parse_cell(line.low_case), parse_cell(line.base_value),
                parse_cell(line.high_case))

\* df.to_csv(ASSUMPTIONS_PATH, index=False): the lines of the whole table
to_csv(df) == [i \in DOMAIN df |-> csv_line(df[i])]

\* pd.read_csv(ASSUMPTIONS_PATH): blank lines are skipped
read_csv(lines) ==
    LET kept == SelectSeq(lines, LAMBDA l : l # BlankLine)
    IN  [i \in DOMAIN kept |-> parse_line(kept[i])]

\* a write of rows at a handle's own offset pos (lines already written by it)
write_at(lines, pos, rows) ==
    [i \in 1..Max(Len(lines), pos + Len(rows)) |->
        IF i > pos /\ i <= pos + Len(rows) THEN rows[i - pos]
        ELSE IF i <= Len(lines) THEN lines[i]
        ELSE BlankLine]

\* the lines one write carries, after pos lines
next_chunk(lines, pos) == SubSeq(lines, pos + 1, Min(pos + RowsPerWrite, Len(lines)))

\* ---- load_assumptions_register: st.cache_data around read_csv ----

\* the table a call returns, given the memo and the file
load_assumptions_register(memo, lines) ==
    IF memo.isnone THEN read_csv(lines) ELSE memo.value

\* the memo after the call
memo_after_load(memo, lines) == IF memo.isnone THEN Some(read_csv(lines)) ELSE memo

\* ---- get_model_assumptions ----

\* the last row with the key: a dict comprehension keeps the last value of a key
last_row(df, key) ==
    df[CHOOSE i \in DOMAIN df :
           df[i].item_key = key /\ \A j \in DOMAIN df : df[j].item_key = key => j <= i]

\* df[df["item_key"].isin(MODEL_DRIVER_KEYS)]
drivers_of(df) == SelectSeq(df, LAMBDA r : r.item_key \in MODEL_DRIVER_KEYS)

\* mutant: NaN coerced to zero
driver_entries_fillna(drivers, column) ==
    {<<drivers[i].item_key,
       IF last_row(drivers, drivers[i].item_key)[column].isnone THEN 0
       ELSE last_row(drivers, drivers[i].item_key)[column].value>> : i \in DOMAIN drivers}

\* {item_key: float(row[column]) for rows with pd.notna(row[column])}, as the set of
\* the dict's items
driver_entries(drivers, column) ==
    LET kept == SelectSeq(drivers, LAMBDA r : ~r[column].isnone)
    IN  {<<kept[i].item_key, last_row(kept, kept[i].item_key)[column].value>> :
            i \in DOMAIN kept}

get_model_assumptions(df, case) == driver_entries(drivers_of(df), case_column(case))

\* ---- _render_group_editor ----

RECURSIVE sort_values(_)
\* group_df.sort_values("ui_order"): insertion of the last row into the sorted rest
sort_values(rows) ==
    IF Len(rows) <= 1 THEN rows
    ELSE LET rest == sort_values(SubSeq(rows, 1, Len(rows) - 1))
             x    == rows[Len(rows)]
             k    == Cardinality({i \in DOMAIN rest : rest[i].ui_order <= x.ui_order})
         IN  SubSeq(rest, 1, k) \o <<x>> \o SubSeq(rest, k + 1, Len(rest))

\* mutant: the advanced rows left out of the group
editable_rows_main_only(df, group) ==
    sort_values(SelectSeq(df, LAMBDA r : r.ui_group = group /\ r.ui_is_editable = 1
                                          /\ r.ui_is_advanced = 0))

\* group_df: the editable rows of the group, main and advanced, by ui_order
editable_rows(df, group) ==
    sort_values(SelectSeq(df, LAMBDA r : r.ui_group = group /\ r.ui_is_editable = 1))

\* _render_assumption_widget: the value the widget starts from
widget_current(row, case_col) ==
    IF row[case_col].isnone THEN row.base_value ELSE row[case_col]

\* mutant: the value written to the base column whatever the case
assign_to_base(df, key, case_col, value) ==
    [i \in DOMAIN df |->
        IF df[i].item_key = key THEN [df[i] EXCEPT !["base_value"] = value] ELSE df[i]]

\* df.loc[df["item_key"] == key, case_col] = value
assign(df, key, case_col, value) ==
    [i \in DOMAIN df |->
        IF df[i].item_key = key THEN [df[i] EXCEPT ![case_col] = value] ELSE df[i]]

RECURSIVE apply_updates_changed_only(_, _, _)
\* mutant: only the rows whose widget does not hold the stored value are written
apply_updates_changed_only(df, updated_values, case_col) ==
    IF updated_values = <<>> THEN df
    ELSE apply_updates_changed_only(
             IF last_row(df, Head(updated_values)[1])[case_col].isnone
                /\ last_row(df, Head(updated_values)[1]).base_value
                       = Some(Head(updated_values)[2])
             THEN df
             ELSE assign(df, Head(updated_values)[1], case_col,
                         Some(Head(updated_values)[2])),
             Tail(updated_values), case_col)

RECURSIVE apply_updates(_, _, _)
\* for key, value in updated_values.items(): the pairs in the order of the widgets
apply_updates(df, updated_values, case_col) ==
    IF updated_values = <<>> THEN df
    ELSE apply_updates(assign(df, Head(updated_values)[1], case_col,
                              Some(Head(updated_values)[2])),
                       Tail(updated_values), case_col)

\* df.loc[mask, case_col] = df.loc[mask, "base_value"]: each masked row takes its own base
assign_base(df, key, case_col) ==
    [i \in DOMAIN df |->
        IF df[i].item_key = key THEN [df[i] EXCEPT ![case_col] = df[i].base_value]
        ELSE df[i]]

RECURSIVE reset_rows(_, _, _)
\* for _, row in group_df.iterrows(): copy base_value into the case column
reset_rows(df, group_rows, case_col) ==
    IF group_rows = <<>> THEN df
    ELSE reset_rows(assign_base(df, Head(group_rows).item_key, case_col),
                    Tail(group_rows), case_col)

\* a value the user enters in a widget
WidgetValues == {5}

\* the dicts updated_values a user can submit: for each editable row of the group the
\* value its widget starts from, or a value the user enters
updated_values_choices(df, group, case_col) ==
    LET rows == editable_rows(df, group)
    IN  { [i \in DOMAIN rows |-> <<rows[i].item_key, v[i]>>] :
            v \in { w \in [DOMAIN rows -> 0..MaxCell] :
                      \A i \in DOMAIN rows :
                          \/ w[i] \in WidgetValues
                          \/ /\ ~widget_current(rows[i], case_col).isnone
                             /\ w[i] = widget_current(rows[i], case_col).value } }

\* ---- the sampled registers ----

Sessions == {"A", "B"}
User == "A"

\* (low_case, base_value, high_case) of an editable row: the base value is present
EditableTriples == {<<None, Some(2), Some(3)>>, <<Some(1), Some(2), None>>}
\* ... and of a row that has no widget
FixedTriples == {<<Some(1), None, Some(3)>>, <<None, Some(2), Some(3)>>}

SampleRegister(t1, t2, t3, t4) ==
    <<RegisterRow("gross_margin_target", "Margins & COGS", 2, 1, 0, t1[1], t1[2], t1[3]),
      RegisterRow("shrink_pct_sales", "Margins & COGS", 1, 1, 1, t2[1], t2[2], t2[3]),
      RegisterRow("permanent_loan_rate", "Financing", 1, 0, 0, t3[1], t3[2], t3[3]),
      RegisterRow("store_hours_per_week", "Opex & Staffing", 1, 1, 0, t4[1], t4[2], t4[3])>>

SampleRegisters ==
    { SampleRegister(t1, t2, t3, t4) :
        t1 \in EditableTriples, t2 \in EditableTriples, t3 \in FixedTriples,
        t4 \in EditableTriples }

NoSave(table) ==
    [kind |-> "none", case |-> "", group |-> "", updated |-> <<>>, before |-> table,
     table |-> table, written |-> {table}, failed |-> FALSE]

NoDrivers == [status |-> "none"]

\* the register as the server starts: the file on disk, nothing memoized, no script running
RegisterStart(table) ==
    /\ file = to_csv(table)
    /\ cache = None
    /\ pc = [s \in Sessions |-> "idle"]
    /\ assumption_case = [s \in Sessions |-> "Conservative"]
    /\ session_df = [s \in Sessions |-> <<>>]
    /\ wpos = [s \in Sessions |-> 0]
    /\ notice = [s \in Sessions |-> ""]
    /\ runs = [s \in Sessions |-> 0]
    /\ last_op = "none"
    /\ saved = NoSave(table)
    /\ fresh = [s \in Sessions |-> FALSE]
    /\ assumption_drivers = NoDrivers

\* the pages of the register are not opened
RegisterIdle ==
    RegisterStart(SampleRegister(<<None, Some(2), Some(3)>>, <<Some(1), Some(2), None>>,
                                 <<Some(1), None, Some(3)>>, <<None, Some(2), Some(3)>>))

----------------------------------------------------------------------------
(* The sidebar navigation of app.py *)

\* config.PAGE_ROUTES: the view module of each page, NoModule for a placeholder
NoModule == "None"

PAGE_ROUTES ==
    [p \in {"Home", "Financial Statements", "Comparison", "Review", "Cash Flow",
            "Ratio Analysis", "Financial Model", "Assumptions", "Tools", "Resources",
            "Links", "Directories", "Reference"} |->
        CASE p = "Home" -> "home"
          [] p = "Financial Statements" -> "financial_statements"
          [] p = "Comparison" -> "comparison"
          [] p = "Review" -> "review"
          [] p = "Cash Flow" -> "cash_flow"
          [] p = "Ratio Analysis" -> "ratio_analysis"
          [] p = "Financial Model" -> "financial_model"
          [] p = "Assumptions" -> "assumptions"
          [] OTHER -> NoModule]

\* config.NAV_SECTIONS: (section, pages) in the order of the sidebar
NAV_SECTIONS ==
    << <<"Overview", <<"Home">> >>,
       <<"Management Reporting", <<"Financial Statements", "Comparison", "Review">> >>,
       <<"Performance & Planning",
         <<"Cash Flow", "Ratio Analysis", "Financial Model", "Assumptions">> >>,
       <<"Knowledge Base", <<"Tools", "Resources", "Links", "Directories", "Reference">> >> >>

\* [page for page in pages if page in PAGE_ROUTES]
valid_pages(pages) == SelectSeq(pages, LAMBDA page : page \in DOMAIN PAGE_ROUTES)

\* _build_section_map(): the sections that have a valid page, each with its valid pages
section_map ==
    [section \in {NAV_SECTIONS[i][1] : i \in {j \in DOMAIN NAV_SECTIONS :
                                                valid_pages(NAV_SECTIONS[j][2]) # <<>>}} |->
        valid_pages(NAV_SECTIONS[CHOOSE i \in DOMAIN NAV_SECTIONS :
                                     NAV_SECTIONS[i][1] = section][2])]

\* _default_selection(): the first section of NAV_SECTIONS that is in the map
default_section ==
    NAV_SECTIONS[CHOOSE i \in DOMAIN NAV_SECTIONS :
                     /\ NAV_SECTIONS[i][1] \in DOMAIN section_map
                     /\ \A j \in DOMAIN NAV_SECTIONS :
                            NAV_SECTIONS[j][1] \in DOMAIN section_map => i <= j][1]

\* a key that is not in st.session_state
Absent == "<absent>"

Range(seq) == {seq[i] : i \in DOMAIN seq}

\* mutant: the page kept whenever one is stored
page_needs_reset_when_missing(state, section, pages_for_section) ==
    state.nav_page = Absent

\* main(), lines 62-66: the stored page cannot be shown for the section
page_needs_reset(state, section, pages_for_section) ==
    \/ state.nav_page = Absent
    \/ state.nav_page_section # section
    \/ state.nav_page \notin Range(pages_for_section)

\* main(), lines 57-69: the session state after the two widgets
main_state(state) ==
    LET with_section == IF state.nav_section = Absent
                        THEN [state EXCEPT !.nav_section = default_section]
                        ELSE state
        section == with_section.nav_section
        pages_for_section == section_map[section]
        with_page == IF page_needs_reset(with_section, section, pages_for_section)
                     THEN [with_section EXCEPT !.nav_page = pages_for_section[1]]
                     ELSE with_section
    IN  [with_page EXCEPT !.nav_page_section = section]

\* main(), lines 72-85: the view module imported and rendered, or the placeholder
render_page(page) ==
    IF PAGE_ROUTES[page] = NoModule THEN "under development"
    ELSE "views." \o PAGE_ROUTES[page]

\* a browser session's state before its first script run
EmptySessionState ==
    [nav_section |-> Absent, nav_page |-> Absent, nav_page_section |-> Absent]

\* no session has opened the portal
NavIdle ==
    /\ session_state = [s \in Sessions |-> EmptySessionState]
    /\ selected_page = [s \in Sessions |-> Absent]
    /\ rendered = [s \in Sessions |-> Absent]
    /\ nav_before = session_state

----------------------------------------------------------------------------
(* The financial-model page: one script run *)

Init ==
    /\ model_start \in ModelStarts
    /\ projection_months \in Horizons
    /\ cash_safety_months \in SafetyValues
    /\ primary_inputs \in PrimarySpace(model_start)
    /\ enable_comparison = FALSE
    /\ comparison_inputs = NoInputs
    /\ primary_result = NoResult
    /\ comparison_result = NoResult
    /\ export_df = NoExport
    /\ RegisterIdle
    /\ NavIdle

\* render(): lines 478-497 and 559-563; an exception of run_projection ends the run
\* before the export is built
Render ==
    /\ primary_result = NoResult
    /\ primary_result' =
           run_projection(primary_inputs, projection_months, cash_safety_months, model_start)
    /\ comparison_result' =
           IF enable_comparison /\ primary_result'.status = "ok"
           THEN run_projection(comparison_inputs, projection_months, cash_safety_months,
                               model_start)
           ELSE NoResult
    /\ export_df' =
           IF primary_result'.status = "ok" /\ comparison_result'.status \in {"none", "ok"}
           THEN scenario_export_dataframe(export_frames(primary_result', comparison_result'))
           ELSE NoExport
    /\ UNCHANGED <<model_start, projection_months, cash_safety_months, primary_inputs,
                   enable_comparison, comparison_inputs, reg_vars, nav_vars>>

Next == Render

Spec == Init /\ [][Next]_vars

InitCompare ==
    /\ model_start \in ModelStarts
    /\ projection_months \in Horizons
    /\ cash_safety_months \in SafetyValues
    /\ primary_inputs \in CompareSpace(model_start, {SCENARIO_OPTIONS[2]})
    /\ enable_comparison \in BOOLEAN
    /\ comparison_inputs \in
           IF enable_comparison
           THEN CompareSpace(model_start, {SCENARIO_OPTIONS[k] : k \in DOMAIN SCENARIO_OPTIONS})
           ELSE {NoInputs}
    /\ primary_result = NoResult
    /\ comparison_result = NoResult
    /\ export_df = NoExport
    /\ RegisterIdle
    /\ NavIdle

SpecCompare == InitCompare /\ [][Next]_vars

\* run_projection called directly, by a caller that is not the page: the values are
\* not limited by the widgets
UnknownStress == "Severe"
UnknownType == "Franchise"

CallerSpace(start) ==
    InputSpace(start, {SCENARIO_OPTIONS[2], UnknownType}, StressNames \cup {UnknownStress},
               {-50000, 50000}, {-500, 800}, {20, 400}, {350, 1100}, {-40, 40},
               {-10000, 10000}, {0}, {0}, {MinDuration}, {MinBasket},
               {-MinFamilies, MinFamilies}, {0}, {0}, {1})

InitCaller ==
    /\ model_start \in ModelStarts
    /\ projection_months \in Horizons
    /\ cash_safety_months \in SafetyValues
    /\ primary_inputs \in CallerSpace(model_start)
    /\ enable_comparison = FALSE
    /\ comparison_inputs = NoInputs
    /\ primary_result = NoResult
    /\ comparison_result = NoResult
    /\ export_df = NoExport
    /\ RegisterIdle
    /\ NavIdle

SpecCaller == InitCaller /\ [][Next]_vars

----------------------------------------------------------------------------
(* The assumptions page and the register, one user: each action is one     *)
(* script run, from load_assumptions_register to the notice.               *)

\* the financial-model page is not opened
ProjectionIdle ==
    /\ model_start = Timestamp(2026, 1)
    /\ projection_months = MinHorizon
    /\ cash_safety_months = 6
    /\ primary_inputs = NoInputs
    /\ enable_comparison = FALSE
    /\ comparison_inputs = NoInputs
    /\ primary_result = NoResult
    /\ comparison_result = NoResult
    /\ export_df = NoExport

Groups == {HIGH_LEVEL_GROUPS[i] : i \in DOMAIN HIGH_LEVEL_GROUPS}

CanRun(s) == pc[s] = "idle" /\ runs[s] < MaxRuns

\* render() of the assumptions page with no button pressed: the radio's case, the load
ViewAssumptions(s, case) ==
    /\ CanRun(s)
    /\ runs' = [runs EXCEPT ![s] = @ + 1]
    /\ assumption_case' = [assumption_case EXCEPT ![s] = case]
    /\ session_df' = [session_df EXCEPT ![s] = load_assumptions_register(cache, file)]
    /\ cache' = memo_after_load(cache, file)
    /\ notice' = [notice EXCEPT ![s] = ""]
    /\ last_op' = "view"
    /\ UNCHANGED <<file, pc, wpos, saved, fresh, assumption_drivers, proj_vars, nav_vars>>

\* render() with "Save changes" of the group's form pressed
SaveChanges(s, group, updated_values) ==
    LET loaded   == load_assumptions_register(cache, file)
        case_col == case_column(assumption_case[s])
        edited   == apply_updates(loaded, updated_values, case_col)
    IN  /\ CanRun(s)
        /\ editable_rows(loaded, group) # <<>>
        /\ updated_values \in updated_values_choices(loaded, group, case_col)
        /\ runs' = [runs EXCEPT ![s] = @ + 1]
        /\ session_df' = [session_df EXCEPT ![s] = edited]
        /\ file' = to_csv(edited)
        /\ cache' = None
        /\ notice' = [notice EXCEPT ![s] = "success"]
        /\ last_op' = "save"
        /\ saved' = [kind |-> "save", case |-> assumption_case[s], group |-> group,
                     updated |-> updated_values, before |-> loaded, table |-> edited,
                     written |-> saved.written \cup {edited}, failed |-> FALSE]
        /\ UNCHANGED <<pc, assumption_case, wpos, fresh, assumption_drivers, proj_vars, nav_vars>>

\* render() with "Reset to defaults" of the group's form pressed
ResetToDefaults(s, group) ==
    LET loaded   == load_assumptions_register(cache, file)
        case_col == case_column(assumption_case[s])
        edited   == reset_rows(loaded, editable_rows(loaded, group), case_col)
    IN  /\ CanRun(s)
        /\ editable_rows(loaded, group) # <<>>
        /\ runs' = [runs EXCEPT ![s] = @ + 1]
        /\ session_df' = [session_df EXCEPT ![s] = edited]
        /\ file' = to_csv(edited)
        /\ cache' = None
        /\ notice' = [notice EXCEPT ![s] = "warning"]
        /\ last_op' = "reset"
        /\ saved' = [kind |-> "reset", case |-> assumption_case[s], group |-> group,
                     updated |-> <<>>, before |-> loaded, table |-> edited,
                     written |-> saved.written \cup {edited}, failed |-> FALSE]
        /\ UNCHANGED <<pc, assumption_case, wpos, fresh, assumption_drivers, proj_vars, nav_vars>>

\* render() of the financial-model page up to assumption_drivers: the page's radio sets
\* the session's case, get_model_assumptions reads the register
GetModelAssumptions(s, case) ==
    /\ CanRun(s)
    /\ runs' = [runs EXCEPT ![s] = @ + 1]
    /\ assumption_case' = [assumption_case EXCEPT ![s] = case]
    /\ assumption_drivers' = [status |-> "ok", case |-> case,
                   table |-> load_assumptions_register(cache, file),
                   items |-> get_model_assumptions(load_assumptions_register(cache, file),
                                                   case)]
    /\ cache' = memo_after_load(cache, file)
    /\ last_op' = "assumption_drivers"
    /\ UNCHANGED <<file, pc, session_df, wpos, notice, saved, fresh, proj_vars, nav_vars>>

\* a case name that is not a key of CASE_TO_COLUMN
UnknownCase == "Stress"

\* get_model_assumptions(case) called by a caller that is not the page, with any name
CallGetModelAssumptions(s, case) ==
    /\ CanRun(s)
    /\ runs' = [runs EXCEPT ![s] = @ + 1]
    /\ assumption_drivers' = [status |-> "ok", case |-> case,
                   table |-> load_assumptions_register(cache, file),
                   items |-> get_model_assumptions(load_assumptions_register(cache, file),
                                                   case)]
    /\ cache' = memo_after_load(cache, file)
    /\ last_op' = "assumption_drivers"
    /\ UNCHANGED <<file, pc, assumption_case, session_df, wpos, notice, saved, fresh,
                   proj_vars, nav_vars>>

NextRegister ==
    \/ \E case \in Cases : ViewAssumptions(User, case)
    \/ \E group \in Groups :
           \E uv \in updated_values_choices(load_assumptions_register(cache, file), group,
                                            case_column(assumption_case[User])) :
               SaveChanges(User, group, uv)
    \/ \E group \in Groups : ResetToDefaults(User, group)
    \/ \E case \in Cases : GetModelAssumptions(User, case)
    \/ \E case \in Cases \cup {UnknownCase} : CallGetModelAssumptions(User, case)

InitRegister ==
    /\ ProjectionIdle
    /\ \E table \in SampleRegisters : RegisterStart(table)
    /\ NavIdle

SpecRegister == InitRegister /\ [][NextRegister]_vars

\* ---- a write that fails ----

\* the lines of the file after to_csv raised: untouched when the file could not be
\* opened, else the writes that reached it before the error
failed_write_outcomes(lines, new_lines) ==
    {lines} \cup {SubSeq(new_lines, 1, k) :
                     k \in {j \in 0..(Len(new_lines) - 1) : j % RowsPerWrite = 0}}

\* render() with "Save changes" pressed and session_df.to_csv raising: the exception leaves
\* save_assumptions_register before the memo is cleared and render() before st.success
SaveChangesFails(s, group, updated_values, left) ==
    LET loaded   == load_assumptions_register(cache, file)
        case_col == case_column(assumption_case[s])
        edited   == apply_updates(loaded, updated_values, case_col)
    IN  /\ CanRun(s)
        /\ editable_rows(loaded, group) # <<>>
        /\ updated_values \in updated_values_choices(loaded, group, case_col)
        /\ left \in failed_write_outcomes(file, to_csv(edited))
        /\ runs' = [runs EXCEPT ![s] = @ + 1]
        /\ session_df' = [session_df EXCEPT ![s] = edited]
        /\ file' = left
        /\ cache' = memo_after_load(cache, file)
        /\ notice' = [notice EXCEPT ![s] = "exception"]
        /\ last_op' = "failed"
        /\ saved' = [saved EXCEPT !.failed = TRUE]
        /\ UNCHANGED <<pc, assumption_case, wpos, fresh, assumption_drivers, proj_vars, nav_vars>>

\* the memo of st.cache_data is gone: the server restarted, or "Clear cache" of the app menu
CacheLost ==
    /\ ~cache.isnone
    /\ cache' = None
    /\ last_op' = "lost"
    /\ UNCHANGED <<file, pc, assumption_case, session_df, wpos, notice, runs, saved, fresh,
                   assumption_drivers, proj_vars, nav_vars>>

NextWriteFailure ==
    \/ \E case \in Cases : ViewAssumptions(User, case)
    \/ \E group \in Groups :
           \E uv \in updated_values_choices(load_assumptions_register(cache, file), group,
                                            case_column(assumption_case[User])) :
               \/ SaveChanges(User, group, uv)
               \/ \E left \in failed_write_outcomes(file, to_csv(apply_updates(
                                  load_assumptions_register(cache, file), uv,
                                  case_column(assumption_case[User])))) :
                      SaveChangesFails(User, group, uv, left)
    \/ CacheLost

SpecWriteFailure == InitRegister /\ [][NextWriteFailure]_vars

----------------------------------------------------------------------------
(* Two sessions, each script run in its own thread: the steps of a run     *)
(* that touch the memo or the file interleave.                             *)

\* the script starts; load_assumptions_register finds the memo or goes to compute it
StartRun(s) ==
    /\ CanRun(s)
    /\ runs' = [runs EXCEPT ![s] = @ + 1]
    /\ notice' = [notice EXCEPT ![s] = ""]
    /\ fresh' = [fresh EXCEPT ![s] = saved.kind = "save"
                                     /\ \A t \in Sessions : pc[t] \notin {"writing", "clearing"}]
    /\ IF cache.isnone
       THEN /\ pc' = [pc EXCEPT ![s] = "reading"]
            /\ session_df' = session_df
       ELSE /\ pc' = [pc EXCEPT ![s] = "loaded"]
            /\ session_df' = [session_df EXCEPT ![s] = cache.value]
    /\ UNCHANGED <<last_op, file, cache, assumption_case, wpos, saved, assumption_drivers,
                   proj_vars, nav_vars>>

\* the miss, under the memo's compute lock: the memo is looked up again, then the file read
ReadFile(s) ==
    /\ pc[s] = "reading"
    /\ \A t \in Sessions : pc[t] # "storing"
    /\ IF cache.isnone
       THEN /\ pc' = [pc EXCEPT ![s] = "storing"]
            /\ session_df' = [session_df EXCEPT ![s] = read_csv(file)]
       ELSE /\ pc' = [pc EXCEPT ![s] = "loaded"]
            /\ session_df' = [session_df EXCEPT ![s] = cache.value]
    /\ UNCHANGED <<last_op, file, cache, assumption_case, wpos, notice, runs, saved, fresh,
                   assumption_drivers, proj_vars, nav_vars>>

\* the value read is memoized and returned
StoreCache(s) ==
    /\ pc[s] = "storing"
    /\ cache' = Some(session_df[s])
    /\ pc' = [pc EXCEPT ![s] = "loaded"]
    /\ UNCHANGED <<last_op, file, assumption_case, session_df, wpos, notice, runs, saved, fresh,
                   assumption_drivers, proj_vars, nav_vars>>

\* no button was pressed: the run ends and its table is dropped
EndRun(s) ==
    /\ pc[s] = "loaded"
    /\ pc' = [pc EXCEPT ![s] = "idle"]
    /\ session_df' = [session_df EXCEPT ![s] = <<>>]
    /\ UNCHANGED <<last_op, file, cache, assumption_case, wpos, notice, runs, saved, fresh,
                   assumption_drivers, proj_vars, nav_vars>>

\* "Save changes" was pressed: df is edited, to_csv opens the file for writing
SubmitSave(s, group, updated_values) ==
    LET case_col == case_column(assumption_case[s])
    IN  /\ pc[s] = "loaded"
        /\ editable_rows(session_df[s], group) # <<>>
        /\ updated_values \in updated_values_choices(session_df[s], group, case_col)
        /\ session_df' = [session_df EXCEPT
                              ![s] = apply_updates(session_df[s], updated_values, case_col)]
        /\ file' = <<>>
        /\ wpos' = [wpos EXCEPT ![s] = 0]
        /\ pc' = [pc EXCEPT ![s] = "writing"]
        /\ fresh' = [t \in Sessions |-> FALSE]
        /\ UNCHANGED <<last_op, cache, assumption_case, notice, runs, saved, assumption_drivers,
                       proj_vars, nav_vars>>

\* one write of to_csv, at the handle's offset; after the last one the file is closed
WriteChunk(s) ==
    LET lines == to_csv(session_df[s])
        chunk == next_chunk(lines, wpos[s])
        done  == wpos[s] + Len(chunk) >= Len(lines)
    IN  /\ pc[s] = "writing"
        /\ file' = write_at(file, wpos[s], chunk)
        /\ wpos' = [wpos EXCEPT ![s] = @ + Len(chunk)]
        /\ pc' = [pc EXCEPT ![s] = IF done THEN "clearing" ELSE "writing"]
        /\ saved' = IF done
                    THEN [saved EXCEPT !.table = session_df[s],
                                       !.written = @ \cup {session_df[s]}]
                    ELSE saved
        /\ UNCHANGED <<last_op, cache, assumption_case, session_df, notice, runs, fresh,
                       assumption_drivers, proj_vars, nav_vars>>

\* load_assumptions_register.clear(), save_assumptions_register returns, st.success,
\* the run ends
ClearCache(s) ==
    /\ pc[s] = "clearing"
    /\ cache' = None
    /\ pc' = [pc EXCEPT ![s] = "idle"]
    /\ notice' = [notice EXCEPT ![s] = "success"]
    /\ saved' = [saved EXCEPT !.kind = "save"]
    /\ session_df' = [session_df EXCEPT ![s] = <<>>]
    /\ wpos' = [wpos EXCEPT ![s] = 0]
    /\ UNCHANGED <<last_op, file, assumption_case, runs, fresh, assumption_drivers, proj_vars, nav_vars>>

NextSessions ==
    \E s \in Sessions :
        \/ StartRun(s)
        \/ ReadFile(s)
        \/ StoreCache(s)
        \/ EndRun(s)
        \/ \E group \in Groups :
               \E uv \in updated_values_choices(session_df[s], group,
                                                case_column(assumption_case[s])) :
                   SubmitSave(s, group, uv)
        \/ WriteChunk(s)
        \/ ClearCache(s)

InitSessions == ProjectionIdle /\ RegisterIdle /\ NavIdle

SpecSessions == InitSessions /\ [][NextSessions]_vars


----------------------------------------------------------------------------
(* The sidebar: each action is one interaction followed by the rerun of main() *)

\* main() run in session s on the session state the interaction left
Main(s, state) ==
    /\ DOMAIN section_map # {}
    /\ nav_before' = [nav_before EXCEPT ![s] = state]
    /\ session_state' = [session_state EXCEPT ![s] = main_state(state)]
    /\ selected_page' = [selected_page EXCEPT ![s] = session_state'[s].nav_page]
    /\ rendered' = [rendered EXCEPT ![s] = render_page(selected_page'[s])]
    /\ UNCHANGED <<proj_vars, reg_vars>>

\* the portal is opened in a browser
OpenPortal(s) ==
    /\ session_state[s].nav_section = Absent
    /\ Main(s, session_state[s])

\* another section chosen in the selectbox "Section"
SelectSection(s, section) ==
    /\ session_state[s].nav_section # Absent
    /\ section \in DOMAIN section_map
    /\ section # session_state[s].nav_section
    /\ Main(s, [session_state[s] EXCEPT !.nav_section = section])

\* a page chosen in the radio "Page", which offers the pages of the section shown
SelectPage(s, page) ==
    /\ session_state[s].nav_section # Absent
    /\ page \in Range(section_map[session_state[s].nav_page_section])
    /\ Main(s, [session_state[s] EXCEPT !.nav_page = page])

NextNav ==
    \E s \in Sessions :
        \/ OpenPortal(s)
        \/ \E section \in DOMAIN section_map : SelectSection(s, section)
        \/ \E page \in DOMAIN PAGE_ROUTES : SelectPage(s, page)

InitNav == ProjectionIdle /\ RegisterIdle /\ NavIdle

SpecNav == InitNav /\ [][NextNav]_vars


----------------------------------------------------------------------------
(* Properties of run_projection on the primary scenario *)

Rendered == primary_result.status # "none"
Projected == primary_result.status = "ok"
Months == 0..(projection_months - 1)
Table == primary_result.data

\* months from model start to construction start, from the two calendar months
PrimaryDelay ==
    (primary_inputs.construction_start.year * 12 + primary_inputs.construction_start.month)
    - (model_start.year * 12 + model_start.month)

PrimaryLaunch ==
    IF PrimaryDelay + primary_inputs.construction_duration_months > 0
    THEN PrimaryDelay + primary_inputs.construction_duration_months
    ELSE 0

\* C1: cumulative-sum law.  Net Cash Flow is the sum of EBITDA, Capex, Owner Draw,
\* Financing and Debt Service; Cumulative Cash[0] = initial_cash + Net Cash Flow[0] and
\* Cumulative Cash[i] = Cumulative Cash[i-1] + Net Cash Flow[i] for every later month.
C1_CumulativeSumLaw ==
    Projected =>
        \A i \in Months :
            /\ Table[i].NetCashFlow =
                   Table[i].EBITDA + Table[i].Capex + Table[i].OwnerDraw
                   + Table[i].Financing + Table[i].DebtService
            /\ i = 0 => Table[i].CumulativeCash =
                            primary_inputs.initial_cash * Scale + Table[i].NetCashFlow
            /\ i > 0 => Table[i].CumulativeCash =
                            Table[i - 1].CumulativeCash + Table[i].NetCashFlow

C1_Witness ==
    /\ Projected
    /\ primary_inputs.initial_cash > 0
    /\ Table[0].NetCashFlow # 0
    /\ \E i \in Months :
          /\ i > 0
          /\ Table[i].Revenue > 0
          /\ Table[i].DebtService < 0
          /\ Table[i].CumulativeCash # Table[i - 1].CumulativeCash

\* C2: before launch_offset Families Active and Revenue are exactly 0; from launch_offset
\* on, with families_per_month > 0 and family_basket_value > 0, Revenue is nonzero.
C2_ZeroBeforeLaunch ==
    Projected =>
        \A i \in Months :
            /\ i < PrimaryLaunch => Table[i].FamiliesActive = 0 /\ Table[i].Revenue = 0
            /\ (/\ i >= PrimaryLaunch
                /\ primary_inputs.families_per_month > 0
                /\ primary_inputs.family_basket_value > 0) => Table[i].Revenue # 0

\* construction starts at model start and lasts 12 months: months 0-11 zero, 12 onward not
C2_Witness ==
    /\ Projected
    /\ PrimaryDelay = 0
    /\ primary_inputs.construction_duration_months = 12
    /\ projection_months > 12
    /\ Table[11].Revenue = 0
    /\ Table[12].Revenue > 0

\* C3: with loan_amount = 0 the projection is returned, Debt Service is 0 in every month
\* and Financing holds the equity injection in month 0 and nothing else.
C3_NoLoanNoDebtService ==
    (Rendered /\ primary_inputs.loan_amount = 0) =>
        /\ Projected
        /\ \A i \in Months :
              /\ Table[i].DebtService = 0
              /\ Table[i].Financing =
                     (IF i = 0 THEN primary_inputs.equity_injection * Scale ELSE 0)

C3_Witness ==
    /\ Projected
    /\ primary_inputs.loan_amount = 0
    /\ primary_inputs.loan_rate > 0
    /\ primary_inputs.loan_term_years > 1
    /\ primary_inputs.equity_injection > 0
    /\ Table[0].Financing > 0

\* the balance of a loan after n payments, interest at r (in 1/FP) added each month
RECURSIVE BalanceAfter(_, _, _, _)
BalanceAfter(principal, r, payment, n) ==
    IF n = 0 THEN principal
    ELSE LET b == BalanceAfter(principal, r, payment, n - 1)
         IN  b + (IF b >= 0 THEN MulDiv(b, r, FP) ELSE -MulDiv(-b, r, FP)) - payment

\* C4: with a loan, Debt Service in month i is the interest-only payment
\* loan_amount * loan_rate / 12 before launch_offset and, from launch_offset on, the fixed
\* payment that repays the loan in loan_term_years * 12 months at the monthly rate
\* (to within one payment of rounding).
C4_InterestOnlyThenAmortizing ==
    (Projected /\ primary_inputs.loan_amount > 0) =>
        LET rate12   == primary_inputs.loan_rate * (FP \div Scale)   \* 12 * monthly rate, 1/FP
            interest == (primary_inputs.loan_amount * rate12) \div (12 * (FP \div Scale))
            payment  == -Table[projection_months - 1].DebtService
            term     == primary_inputs.loan_term_years * 12
        IN  /\ \A i \in Months :
                  /\ i < PrimaryLaunch => Table[i].DebtService = -interest
                  /\ i >= PrimaryLaunch => Table[i].DebtService = -payment
            /\ PrimaryLaunch < projection_months =>
                  Abs(BalanceAfter(primary_inputs.loan_amount * Scale, rate12 \div 12,
                                   payment, term)) < payment

\* both payments are charged and they differ
C4_Witness ==
    /\ Projected
    /\ primary_inputs.loan_amount > 0
    /\ primary_inputs.loan_rate > 0
    /\ PrimaryLaunch > 0
    /\ PrimaryLaunch < projection_months
    /\ Table[PrimaryLaunch - 1].DebtService < 0
    /\ Table[PrimaryLaunch].DebtService < Table[PrimaryLaunch - 1].DebtService

\* C5: a zero-rate loan raises no error; from launch_offset on the payment is exactly
\* loan_amount / (loan_term_years * 12), before it the interest-only payment is 0.
C5_ZeroRateStraightLine ==
    (Rendered /\ primary_inputs.loan_amount > 0 /\ primary_inputs.loan_rate = 0) =>
        /\ Projected
        /\ \A i \in Months :
              /\ i < PrimaryLaunch => Table[i].DebtService = 0
              /\ i >= PrimaryLaunch =>
                    LET payment == -Table[i].DebtService
                        term    == primary_inputs.loan_term_years * 12
                    IN  /\ payment * term <= primary_inputs.loan_amount * Scale
                        /\ primary_inputs.loan_amount * Scale < (payment + 1) * term

C5_Witness ==
    /\ Projected
    /\ primary_inputs.loan_amount > 0
    /\ primary_inputs.loan_rate = 0
    /\ PrimaryLaunch > 0
    /\ PrimaryLaunch < projection_months
    /\ Table[0].DebtService = 0
    /\ Table[PrimaryLaunch].DebtService * primary_inputs.loan_term_years * 12
           = -(primary_inputs.loan_amount * Scale)

\* the month in which the loan is drawn
PrimaryDrawIdx ==
    IF PrimaryDelay < 0 THEN 0
    ELSE IF PrimaryDelay > projection_months - 1 THEN projection_months - 1
    ELSE PrimaryDelay

\* C6: Financing is the equity injection in month 0, the loan amount in the month of the
\* construction start clamped into [0, horizon - 1], their sum where the two coincide,
\* and 0 in every other month.
C6_FinancingPlacement ==
    Projected =>
        \A i \in Months :
            Table[i].Financing =
                (IF i = 0 THEN primary_inputs.equity_injection * Scale ELSE 0)
                + (IF i = PrimaryDrawIdx THEN primary_inputs.loan_amount * Scale ELSE 0)

\* the loan is drawn in the last month: construction starts past the horizon
C6_Witness ==
    /\ Projected
    /\ primary_inputs.loan_amount > 0
    /\ primary_inputs.equity_injection > 0
    /\ PrimaryDelay > projection_months - 1
    /\ Table[projection_months - 1].Financing = primary_inputs.loan_amount * Scale
    /\ Table[0].Financing = primary_inputs.equity_injection * Scale

\* the same month holds both
C6_WitnessSameMonth ==
    /\ Projected
    /\ primary_inputs.loan_amount > 0
    /\ primary_inputs.equity_injection > 0
    /\ PrimaryDelay < 0
    /\ Table[0].Financing =
           (primary_inputs.equity_injection + primary_inputs.loan_amount) * Scale

\* C7: if Cumulative Cash is >= 0 in every month, the runway is infinite, its label is
\* the beyond-horizon sentinel and cash_shortfall is 0.
C7_NeverNegativeInfiniteRunway ==
    (Projected /\ \A i \in Months : Table[i].CumulativeCash >= 0) =>
        /\ primary_result.runway_months.isinf
        /\ primary_result.runway_label = "Beyond projection horizon"
        /\ primary_result.cash_shortfall = 0

\* Cumulative Cash touches 0 and never goes below
C7_Witness ==
    /\ Projected
    /\ \A i \in Months : Table[i].CumulativeCash >= 0
    /\ \E i \in Months : Table[i].CumulativeCash = 0
    /\ primary_result.runway_months.isinf

\* C8: if Cumulative Cash is negative in some month, runway_months is the 1-based index of
\* the first such month and the runway label is that month, written year-month.
C8_RunwayFirstNegativeMonth ==
    (Projected /\ \E i \in Months : Table[i].CumulativeCash < 0) =>
        /\ ~primary_result.runway_months.isinf
        /\ LET k == primary_result.runway_months.value - 1
           IN  /\ k \in Months
               /\ Table[k].CumulativeCash < 0
               /\ \A j \in 0..(k - 1) : Table[j].CumulativeCash >= 0
               /\ primary_result.runway_label = strftime_Ym(Table[k].month)
               /\ Table[k].month.year * 12 + Table[k].month.month
                      = model_start.year * 12 + model_start.month + k

\* the first negative month is neither the first nor the last, after a month at exactly 0
C8_Witness ==
    /\ Projected
    /\ ~primary_result.runway_months.isinf
    /\ primary_result.runway_months.value = 6
    /\ Table[4].CumulativeCash = 0
    /\ Table[5].CumulativeCash < 0
    /\ primary_result.runway_label = "2026-06"

\* C10 as stated: horizon < construction_duration + max(1, launch delay), the delay
\* possibly negative, leaves Families Active and Revenue at 0 in every month.
C10_Original ==
    (Rendered /\ projection_months < primary_inputs.construction_duration_months
                                        + Max(1, PrimaryDelay)) =>
        /\ Projected
        /\ \A i \in Months : Table[i].FamiliesActive = 0 /\ Table[i].Revenue = 0

\* C10, amended: the same for a launch delay that is not negative.
C10_ShortHorizonNoRevenue ==
    (/\ Rendered
     /\ PrimaryDelay >= 0
     /\ projection_months < primary_inputs.construction_duration_months
                                + Max(1, PrimaryDelay)) =>
        /\ Projected
        /\ \A i \in Months : Table[i].FamiliesActive = 0 /\ Table[i].Revenue = 0

C10_Witness ==
    /\ Projected
    /\ PrimaryDelay = 0
    /\ primary_inputs.construction_duration_months = projection_months
    /\ \A i \in Months : Table[i].Revenue = 0
    /\ primary_result.annual_recurring_revenue = 0

----------------------------------------------------------------------------
(* Properties of the two runs of one script run *)

BothProjected == primary_result.status = "ok" /\ comparison_result.status = "ok"
Other == comparison_result.data

\* the primary scenario is the Upside and the comparison the Downside of the same inputs
UpsideDownsidePair ==
    /\ enable_comparison
    /\ BothProjected
    /\ primary_inputs.stress_case = "Upside"
    /\ comparison_inputs.stress_case = "Downside"
    /\ \A f \in DOMAIN primary_inputs \ {"stress_case", "label"} :
           primary_inputs[f] = comparison_inputs[f]

UpsideRevenueAtLeastDownside == \A i \in Months : Table[i].Revenue >= Other[i].Revenue

\* min over the months of the first table >= min over the months of the second
UpsideMinCashAtLeastDownside ==
    \A i \in Months : \E j \in Months : Table[i].CumulativeCash >= Other[j].CumulativeCash

\* C9 as stated: Upside against Downside of the same inputs has Revenue >= in every month
\* and minimum Cumulative Cash >=.
C9_Original ==
    UpsideDownsidePair => UpsideRevenueAtLeastDownside /\ UpsideMinCashAtLeastDownside

\* C9, amended: Revenue >= in every month (the growth input is not negative); minimum
\* Cumulative Cash >= when EBITDA + Capex of the Upside run is not negative in any month.
C9_UpsideDominatesDownside ==
    (UpsideDownsidePair /\ primary_inputs.revenue_growth >= 0) =>
        /\ UpsideRevenueAtLeastDownside
        /\ (\A i \in Months : Table[i].EBITDA + Table[i].Capex >= 0)
               => /\ UpsideMinCashAtLeastDownside
                  /\ primary_result.min_cash >= comparison_result.min_cash

\* the Upside run earns strictly more and the Downside run loses on every sale
C9_Witness ==
    /\ UpsideDownsidePair
    /\ \E i \in Months : Table[i].Revenue > Other[i].Revenue
    /\ \A i \in Months : Table[i].EBITDA + Table[i].Capex >= 0
    /\ \E i \in Months : Table[i].EBITDA + Table[i].Capex > 0
    /\ \E i \in Months : Other[i].EBITDA + Other[i].Capex < 0
    /\ primary_result.min_cash > comparison_result.min_cash

----------------------------------------------------------------------------
(* run_projection and values outside the widgets' ranges *)

InRange(x, lo, hi) == lo <= x /\ x <= hi
Clamped(x, lo, hi) == IF x < lo THEN lo ELSE IF x > hi THEN hi ELSE x
KnownStress == primary_inputs.stress_case \in {"Base", "Upside", "Downside"}
KnownType == primary_inputs.scenario_type \in {"Acquire Existing Business", "Start from Scratch"}

\* the ratios after the stress multiplier, before any clamp
StressedGrowth ==
    StressMul(primary_inputs.revenue_growth, STRESS_CASES[primary_inputs.stress_case].growth)
StressedMargin ==
    StressMul(primary_inputs.gross_margin, STRESS_CASES[primary_inputs.stress_case].margin)
StressedOpex ==
    StressMul(primary_inputs.opex_ratio, STRESS_CASES[primary_inputs.stress_case].opex)

\* C11: stress clamping.  For every ScenarioInputs and stress case the table is computed
\* from a gross margin in [0.05, 0.95], an opex ratio in [0.05, 0.95] and an annual growth
\* of at most 0.9: COGS = -Revenue * (1 - clamped margin), Operating Expenses =
\* -Revenue * clamped opex ratio, never the raw products.
C11_StressClamping ==
    Projected =>
        \E g \in {Clamped(StressedGrowth, StressedGrowth, (9 * Scale) \div 10)},
           gm \in {Clamped(StressedMargin, (5 * Scale) \div 100, (95 * Scale) \div 100)},
           ox \in {Clamped(StressedOpex, (5 * Scale) \div 100, (95 * Scale) \div 100)} :
            /\ g <= (9 * Scale) \div 10
            /\ InRange(gm, (5 * Scale) \div 100, (95 * Scale) \div 100)
            /\ InRange(ox, (5 * Scale) \div 100, (95 * Scale) \div 100)
            /\ \A i \in Months :
                   /\ Table[i].Revenue =
                          revenue_at(primary_inputs, PrimaryLaunch, monthly_factor(g), i)
                   /\ Table[i].COGS = -Ratio(Table[i].Revenue, Scale - gm)
                   /\ Table[i].OperatingExpenses = -Ratio(Table[i].Revenue, ox)

\* all three clamps act on one projection with revenue
C11_Witness ==
    /\ Projected
    /\ StressedGrowth > (9 * Scale) \div 10
    /\ StressedMargin < (5 * Scale) \div 100
    /\ StressedOpex > (95 * Scale) \div 100
    /\ \E i \in Months : Table[i].Revenue > 0 /\ Table[i].COGS < 0

\* C12: run_projection is defensive against any caller.  The row invariants hold in
\* every month whatever the inputs: Families Active >= 0, COGS <= 0, Capex <= 0,
\* Owner Draw <= 0, Debt Service <= 0.
C12_DefensiveRowInvariants ==
    Projected =>
        \A i \in Months :
            /\ Table[i].FamiliesActive >= 0
            /\ Table[i].COGS <= 0
            /\ Table[i].Capex <= 0
            /\ Table[i].OwnerDraw <= 0
            /\ Table[i].DebtService <= 0

\* C13: an unknown stress case fails fast.  run_projection ends with the lookup's error,
\* with no table and no metric, and never with the projection of the Base multipliers.
C13_UnknownStressFailsFast ==
    (Rendered /\ ~KnownStress) => primary_result = [status |-> "KeyError"]

C13_Witness ==
    /\ Rendered
    /\ primary_inputs.stress_case = UnknownStress
    /\ primary_result.status = "KeyError"

\* C14: an unknown scenario type ends the computation.  Input collection does not
\* preselect another scenario type for it, and run_projection returns no projection for it.
C14_UnknownTypeTerminates ==
    (Rendered /\ ~KnownType) =>
        /\ primary_result.status # "ok"
        /\ SCENARIO_OPTIONS[scenario_index(primary_inputs.scenario_type) + 1]
               = primary_inputs.scenario_type

----------------------------------------------------------------------------
(* The assumptions register *)

\* the column of a case, as the register's contract names it
ColumnOf(case) ==
    IF case = "Conservative" THEN "low_case"
    ELSE IF case = "Aggressive" THEN "high_case"
    ELSE "base_value"

Whitelist == MODEL_DRIVER_KEYS

\* C15: get_model_assumptions(case) returns a mapping whose keys are exactly the
\* whitelisted driver keys with a row whose value in the case's column is present; a key
\* whose value is absent is omitted (never mapped to 0), a key outside the whitelist never
\* appears, and each returned value is the stored column value.
C15_PresentWhitelistedDrivers ==
    assumption_drivers.status = "ok" =>
        LET t     == assumption_drivers.table
            col   == ColumnOf(assumption_drivers.case)
            items == assumption_drivers.items
        IN  /\ {e[1] : e \in items} =
                   {k \in Whitelist :
                       \E i \in DOMAIN t : t[i].item_key = k /\ ~t[i][col].isnone}
            /\ \A e \in items :
                   \E i \in DOMAIN t : t[i].item_key = e[1] /\ t[i][col] = Some(e[2])
            /\ \A e, f \in items : e[1] = f[1] => e = f

\* a whitelisted key is omitted because its value is absent, a key outside the whitelist
\* has a value, and the mapping is not empty
C15_Witness ==
    /\ assumption_drivers.status = "ok"
    /\ assumption_drivers.items # {}
    /\ \E i, j \in DOMAIN assumption_drivers.table :
           LET t   == assumption_drivers.table
               col == ColumnOf(assumption_drivers.case)
           IN  /\ t[i].item_key \in Whitelist /\ t[i][col].isnone
               /\ t[j].item_key \notin Whitelist /\ ~t[j][col].isnone

\* C16: round trip.  After a save that sets v for (key, case) completes, the memo is
\* empty, the file holds v in the case's column of the row with that item_key, and a
\* load that follows returns it.
C16_SaveRoundTrip ==
    saved.kind = "save" =>
        \A p \in DOMAIN saved.updated :
            LET key == saved.updated[p][1]
                v   == saved.updated[p][2]
                col == ColumnOf(saved.case)
                has(t) == /\ \E i \in DOMAIN t : t[i].item_key = key
                          /\ \A i \in DOMAIN t : t[i].item_key = key => t[i][col] = Some(v)
            IN  /\ has(read_csv(file))
                /\ last_op = "save" => cache = None
                /\ last_op = "view" => has(session_df[User])

\* a load after a save that changed a value of the Conservative case
C16_Witness ==
    /\ last_op = "view"
    /\ saved.kind = "save"
    /\ saved.case = "Conservative"
    /\ \E p \in DOMAIN saved.updated, i \in DOMAIN saved.before :
           /\ saved.before[i].item_key = saved.updated[p][1]
           /\ saved.before[i].low_case # Some(saved.updated[p][2])
           /\ session_df[User][i].low_case = Some(saved.updated[p][2])

\* C18: reset of a group for a case.  Every row of the group with ui_is_editable = 1,
\* main or advanced, gets its base_value in the case's column, the whole table is
\* persisted, and a load after the reset shows it: the other rows as they were.
C18_ResetGroupToBase ==
    (last_op = "view" /\ saved.kind = "reset") =>
        LET t   == session_df[User]
            b   == saved.before
            col == ColumnOf(saved.case)
        IN  /\ Len(t) = Len(b)
            /\ \A i \in DOMAIN t :
                   IF b[i].ui_group = saved.group /\ b[i].ui_is_editable = 1
                   THEN t[i] = [b[i] EXCEPT ![col] = b[i].base_value]
                   ELSE t[i] = b[i]

\* a load after a reset that changed an advanced row
C18_Witness ==
    /\ last_op = "view"
    /\ saved.kind = "reset"
    /\ \E i \in DOMAIN saved.before :
           LET b == saved.before[i]
           IN  /\ b.ui_group = saved.group /\ b.ui_is_editable = 1 /\ b.ui_is_advanced = 1
               /\ b[ColumnOf(saved.case)] # b.base_value
               /\ session_df[User][i][ColumnOf(saved.case)] = b.base_value

\* C19: a write that fails during a save.  The failure is shown to the user, the success
\* notice is not, and the loads that follow return the last table that was persisted.
C19_FailedSaveKeepsPersisted ==
    /\ last_op = "failed" => notice[User] = "exception"
    /\ (saved.failed /\ last_op = "view") => session_df[User] = saved.table

\* C17: cache invalidation.  A load that begins after a save has returned, with no
\* other save begun since and the saved table whole in the file, returns the saved table,
\* in every session.
C17_LoadAfterSaveSeesIt ==
    \A s \in Sessions :
        (pc[s] = "loaded" /\ fresh[s] /\ file = to_csv(saved.table))
            => session_df[s] = saved.table

\* C20: last writer wins, the whole file.  Whenever no write is under way the file is
\* the complete table of one writer (or the table the server started with), never a
\* mixture of the rows of two writers.
C20_LastWriterWholeFile ==
    (\A s \in Sessions : pc[s] # "writing") => \E t \in saved.written : file = to_csv(t)

----------------------------------------------------------------------------
(* C23: payback_months is the 1-based index of the first month whose Cumulative
   Cash is at least initial_cash: that month reaches initial_cash and no earlier
   month does; it is None exactly when no month of the horizon reaches
   initial_cash. *)

ReachesInitialCash(i) == Table[i].CumulativeCash >= Money(primary_inputs.initial_cash)

C23_WitnessAbsent ==
    /\ Projected
    /\ primary_result.payback_months = None
    /\ \A i \in Months : ~ReachesInitialCash(i)

----------------------------------------------------------------------------
(* C24: cash_shortfall is the absolute value of the minimum Cumulative Cash when
   that minimum is negative and 0 otherwise; the warning is non-empty exactly
   when cash_shortfall > 0, and then it names the shortfall amount and the
   target runway cash_safety_months. *)

IsMinimumCash(m) ==
    /\ \E i \in Months : Table[i].CumulativeCash = m
    /\ \A i \in Months : Table[i].CumulativeCash >= m

C24_ShortfallAndWarning ==
    Projected =>
        LET cash_shortfall == primary_result.cash_shortfall
            warning == primary_result.warning
        IN  /\ \A i \in Months :
                   IsMinimumCash(Table[i].CumulativeCash) =>
                       cash_shortfall = IF Table[i].CumulativeCash < 0
                                        THEN Abs(Table[i].CumulativeCash) ELSE 0
            /\ cash_shortfall >= 0
            /\ (warning # <<>>) <=> (cash_shortfall > 0)
            /\ warning # <<>> =>
                   /\ warning[2] = cash_safety_months
                   /\ warning[4] = format_currency(cash_shortfall)

\* a projection that goes below zero: the warning is shown with the shortfall
C24_Witness ==
    /\ Projected
    /\ primary_result.min_cash < 0
    /\ primary_result.cash_shortfall > 0
    /\ primary_result.warning # <<>>

\* a projection that stays at or above zero: no shortfall, no warning
C24_WitnessNoShortfall ==
    /\ Projected
    /\ primary_result.min_cash >= 0
    /\ primary_result.cash_shortfall = 0
    /\ primary_result.warning = <<>>

----------------------------------------------------------------------------
(* C25: for the inputs the widgets allow, every row has Families Active >= 0,
   from the launch month onward Families Active equals
   families_per_month * (months since launch + 1) and does not decrease, COGS,
   Operating Expenses, Capex and Debt Service are <= 0, and Owner Draw is the
   same value -owner_draw <= 0 in every month. *)

C25_RowSignInvariants ==
    Projected =>
        \A i \in Months :
            /\ Table[i].FamiliesActive >= 0
            /\ i >= PrimaryLaunch =>
                   Table[i].FamiliesActive =
                       primary_inputs.families_per_month * ((i - PrimaryLaunch) + 1)
            /\ (i >= PrimaryLaunch /\ i + 1 \in Months) =>
                   Table[i + 1].FamiliesActive >= Table[i].FamiliesActive
            /\ Table[i].COGS <= 0
            /\ Table[i].OperatingExpenses <= 0
            /\ Table[i].Capex <= 0
            /\ Table[i].DebtService <= 0
            /\ Table[i].OwnerDraw = -Money(primary_inputs.owner_draw)
            /\ Table[i].OwnerDraw <= 0

\* a projection with months after launch, costs, a loan being served and an owner draw
C25_Witness ==
    /\ Projected
    /\ PrimaryLaunch + 1 \in Months
    /\ Table[PrimaryLaunch + 1].FamiliesActive > Table[PrimaryLaunch].FamiliesActive
    /\ Table[PrimaryLaunch].FamiliesActive > 0
    /\ Table[PrimaryLaunch + 1].COGS < 0
    /\ Table[PrimaryLaunch + 1].OperatingExpenses < 0
    /\ Table[PrimaryLaunch + 1].Capex < 0
    /\ Table[0].DebtService < 0
    /\ Table[0].OwnerDraw < 0

----------------------------------------------------------------------------
(* C26: with loan_amount > 0 and loan_rate > 0, Debt Service is strictly negative
   in every month of the horizon and is a function of "month index < launch
   offset" alone: it is charged in the months before the loan draw index, and
   the amortizing payment is charged unchanged in every month from launch to the
   end of the horizon, also after loan_term_years * 12 such payments. *)

PrimaryLoanAtInterest ==
    /\ Projected
    /\ primary_inputs.loan_amount > 0
    /\ primary_inputs.loan_rate > 0

C26_DebtServiceEveryMonth ==
    PrimaryLoanAtInterest =>
        /\ \A i \in Months : Table[i].DebtService < 0
        /\ \A i, j \in Months :
               ((i < PrimaryLaunch) <=> (j < PrimaryLaunch)) =>
                   Table[i].DebtService = Table[j].DebtService
        /\ \A i \in Months :
               i < PrimaryLaunch =>
                   Table[i].DebtService = -interest_only_payment(primary_inputs)

\* a month charged before the loan appears in Financing
C26_Witness ==
    /\ PrimaryLoanAtInterest
    /\ PrimaryDrawIdx > 0
    /\ Table[0].Financing < Money(primary_inputs.loan_amount)
    /\ Table[PrimaryDrawIdx].Financing >= Money(primary_inputs.loan_amount)
    /\ Table[0].DebtService < 0

\* a month charged after loan_term_years * 12 amortizing payments
C26_WitnessPastTerm ==
    /\ PrimaryLoanAtInterest
    /\ \E i \in Months :
           /\ i >= PrimaryLaunch + primary_inputs.loan_term_years * 12
           /\ Table[i].DebtService = Table[PrimaryLaunch].DebtService
           /\ Table[i].DebtService < 0

----------------------------------------------------------------------------
(* C21: the export holds exactly horizon rows of the primary run, followed when
   the comparison is enabled by exactly horizon rows of the comparison run made
   with the same horizon, safety target and model start; every row carries the
   Scenario label of the inputs that produced it, and the primary rows are those
   exported when the comparison is disabled. *)

\* what the page exports for one scenario alone
ExportAlone(inputs) ==
    scenario_export_dataframe(
        <<run_projection(inputs, projection_months, cash_safety_months, model_start).data>>)

C21_ExportOneBlockPerScenario ==
    Projected =>
        LET n         == projection_months
            primary   == SubSeq(export_df, 1, n)
            following == SubSeq(export_df, n + 1, Len(export_df))
        IN  /\ Len(export_df) = IF enable_comparison THEN 2 * n ELSE n
            /\ primary = ExportAlone(primary_inputs)
            /\ \A k \in 1..n :
                   /\ primary[k].Scenario = primary_inputs.label
                   /\ primary[k].month = strftime_Ym(AddMonths(model_start, k - 1))
                   /\ primary[k].CumulativeCash = Table[k - 1].CumulativeCash
            /\ enable_comparison =>
                   /\ following = ExportAlone(comparison_inputs)
                   /\ \A k \in 1..n :
                          /\ following[k].Scenario = comparison_inputs.label
                          /\ following[k].month = strftime_Ym(AddMonths(model_start, k - 1))

\* two scenarios of different labels and different cash, one block each
C21_Witness ==
    /\ Projected
    /\ enable_comparison
    /\ Len(export_df) = 2 * projection_months
    /\ export_df[1].Scenario # export_df[projection_months + 1].Scenario
    /\ export_df[projection_months].CumulativeCash
           # export_df[2 * projection_months].CumulativeCash

\* the comparison disabled: the primary block alone
C21_WitnessPrimaryOnly ==
    /\ Projected
    /\ ~enable_comparison
    /\ Len(export_df) = projection_months

----------------------------------------------------------------------------
(* C30: the label is a function of (scenario_type, stress_case) alone: whenever
   the primary and the comparison inputs share both, every row of the combined
   export carries the same Scenario value, whatever the other drivers. *)

SameTypeAndStress ==
    /\ Projected
    /\ enable_comparison
    /\ primary_inputs.scenario_type = comparison_inputs.scenario_type
    /\ primary_inputs.stress_case = comparison_inputs.stress_case

C30_SharedLabelIndistinguishable ==
    SameTypeAndStress =>
        /\ primary_inputs.label = comparison_inputs.label
        /\ primary_result.scenario_label = comparison_result.scenario_label
        /\ \A k, l \in 1..Len(export_df) : export_df[k].Scenario = export_df[l].Scenario

\* two scenarios of different drivers and different cash under one label
C30_Witness ==
    /\ SameTypeAndStress
    /\ primary_inputs.revenue_growth # comparison_inputs.revenue_growth
    /\ Len(export_df) = 2 * projection_months
    /\ export_df[projection_months].CumulativeCash
           # export_df[2 * projection_months].CumulativeCash
    /\ export_df[projection_months].Scenario = export_df[2 * projection_months].Scenario

----------------------------------------------------------------------------
(* C22: a save in which the user sets one (key, case) value changes the case's
   column of the one row with that key and nothing else: every other row, the
   other two case columns and the metadata columns are as in the loaded table,
   and there are as many rows as before, one per key. *)

\* the widgets of the save whose value is not the one they started from
ChangedWidgets ==
    {p \in DOMAIN saved.updated :
        Some(saved.updated[p][2])
            # widget_current(last_row(saved.before, saved.updated[p][1]),
                             ColumnOf(saved.case))}

C22_SaveTouchesOneCell ==
    (saved.kind = "save" /\ Cardinality(ChangedWidgets) = 1) =>
        LET p     == CHOOSE q \in ChangedWidgets : TRUE
            key   == saved.updated[p][1]
            col   == ColumnOf(saved.case)
            b     == saved.before
            t     == read_csv(file)
        IN  /\ Len(t) = Len(b)
            /\ \A i \in DOMAIN b :
                   IF b[i].item_key = key
                   THEN t[i] = [b[i] EXCEPT ![col] = Some(saved.updated[p][2])]
                   ELSE t[i] = b[i]
            /\ \A i, j \in DOMAIN t : t[i].item_key = t[j].item_key => i = j

----------------------------------------------------------------------------
(* C28: get_model_assumptions called with a case name that is none of
   Conservative, Likely, Aggressive returns normally, reads the base_value
   column and returns the mapping get_model_assumptions("Likely") returns. *)

C28_UnknownCaseReadsBase ==
    (assumption_drivers.status # "none" /\ assumption_drivers.case \notin Cases) =>
        /\ assumption_drivers.status = "ok"
        /\ assumption_drivers.items = get_model_assumptions(assumption_drivers.table, "Likely")
        /\ assumption_drivers.items =
               {<<assumption_drivers.table[i].item_key,
                  assumption_drivers.table[i].base_value.value>> :
                    i \in {j \in DOMAIN assumption_drivers.table :
                              /\ assumption_drivers.table[j].item_key \in Whitelist
                              /\ ~assumption_drivers.table[j].base_value.isnone}}

\* an unknown case name on a register whose three columns give three different mappings
C28_Witness ==
    /\ assumption_drivers.status = "ok"
    /\ assumption_drivers.case = UnknownCase
    /\ assumption_drivers.items # {}
    /\ assumption_drivers.items
           # get_model_assumptions(assumption_drivers.table, "Conservative")
    /\ assumption_drivers.items
           # get_model_assumptions(assumption_drivers.table, "Aggressive")

----------------------------------------------------------------------------
(* C29: Save on a group for case c writes the column of c in every editable row
   of the group, changed by the user or not; a row whose value was absent before
   holds a value afterwards (its base_value unless the user entered another),
   so no editable row of the group has an absent c value after the save. *)

SavedGroupRows == {i \in DOMAIN saved.before :
                      /\ saved.before[i].ui_group = saved.group
                      /\ saved.before[i].ui_is_editable = 1}

\* every editable row of the saved group holds the value its widget returned
SaveWritesWholeGroup ==
    LET col == ColumnOf(saved.case)
        t   == read_csv(file)
    IN  /\ {saved.updated[p][1] : p \in DOMAIN saved.updated}
               = {saved.before[i].item_key : i \in SavedGroupRows}
        /\ \A i \in SavedGroupRows :
               /\ ~t[i][col].isnone
               /\ \E p \in DOMAIN saved.updated :
                      /\ saved.updated[p][1] = t[i].item_key
                      /\ t[i][col] = Some(saved.updated[p][2])
               /\ (saved.before[i][col].isnone /\ i \notin
                       {j \in SavedGroupRows :
                           \E p \in ChangedWidgets : saved.updated[p][1] = t[j].item_key})
                      => t[i][col] = saved.before[i].base_value

\* the keys get_model_assumptions returns for the case of the save, from the file
KeysAfterSave ==
    {e[1] : e \in get_model_assumptions(read_csv(file), saved.case)}

\* as stated: every key of the saved group is returned by get_model_assumptions(c)
C29_Original ==
    saved.kind = "save" =>
        /\ SaveWritesWholeGroup
        /\ \A i \in SavedGroupRows : saved.before[i].item_key \in KeysAfterSave

\* ... which holds for the keys of MODEL_DRIVER_KEYS; the other keys are never returned
C29_SaveFillsAbsentValues ==
    saved.kind = "save" =>
        /\ SaveWritesWholeGroup
        /\ \A i \in SavedGroupRows :
               saved.before[i].item_key \in KeysAfterSave
                   <=> saved.before[i].item_key \in Whitelist

\* a row of a whitelisted key, absent before, saved without the user touching it
C29_Witness ==
    /\ saved.kind = "save"
    /\ \E i \in SavedGroupRows :
           /\ saved.before[i][ColumnOf(saved.case)].isnone
           /\ saved.before[i].item_key \in Whitelist
           /\ saved.before[i].item_key \notin
                  {e[1] : e \in get_model_assumptions(saved.before, saved.case)}
           /\ read_csv(file)[i][ColumnOf(saved.case)] = saved.before[i].base_value
           /\ saved.before[i].item_key \in KeysAfterSave

----------------------------------------------------------------------------
(* C27: whenever main() reaches page rendering, the selected page belongs to the
   page list of the selected section and nav_page_section is the selected
   section; when the selected section differs from the section the previous run
   recorded, or the stored page is not in the section, the selected page is the
   first page of the section. *)

PageRendered(s) == selected_page[s] # Absent

C27_PageWithinSection ==
    \A s \in Sessions :
        PageRendered(s) =>
            LET section == session_state[s].nav_section
                before  == nav_before[s]
            IN  /\ section \in DOMAIN section_map
                /\ selected_page[s] \in Range(section_map[section])
                /\ selected_page[s] = session_state[s].nav_page
                /\ session_state[s].nav_page_section = section
                /\ \E i \in DOMAIN NAV_SECTIONS :
                       /\ NAV_SECTIONS[i][1] = section
                       /\ selected_page[s] \in Range(NAV_SECTIONS[i][2])
                /\ (\/ before.nav_page_section # section
                    \/ before.nav_page \notin Range(section_map[section]))
                       => selected_page[s] = section_map[section][1]
                /\ (/\ before.nav_page_section = section
                    /\ before.nav_page \in Range(section_map[section]))
                       => selected_page[s] = before.nav_page

\* a section chosen while a page that is not in it, and not the first of its own
\* section, was shown
C27_Witness ==
    \E s \in Sessions :
        /\ PageRendered(s)
        /\ nav_before[s].nav_page_section \notin {Absent, session_state[s].nav_section}
        /\ nav_before[s].nav_page \notin Range(section_map[session_state[s].nav_section])
        /\ nav_before[s].nav_page # section_map[nav_before[s].nav_page_section][1]
        /\ selected_page[s] = section_map[session_state[s].nav_section][1]

\* a page that is not the first chosen within the section
C27_WitnessPageKept ==
    \E s \in Sessions :
        /\ PageRendered(s)
        /\ nav_before[s].nav_page_section = session_state[s].nav_section
        /\ selected_page[s] # section_map[session_state[s].nav_section][1]
        /\ selected_page[s] = nav_before[s].nav_page

=============================================================================
